---- MODULE Spec2Model ----
(***************************************************************************)
(* A model of the SelfLayer terminal client (src/selflayer).               *)
(*                                                                         *)
(*   SpecGateway  the API gateway of client.py: get / post / put / patch / *)
(*                delete and the line-delimited streaming reader.          *)
(*   SpecState    the AppState cache of models.py driven by list fetches.  *)
(*   Spec         the command session of tui.py over that cache.           *)
(*                                                                         *)
(* Text is modelled as a sequence of tokens (each a literal piece of the   *)
(* text), so that strip / startswith / slicing / json.loads act on it as   *)
(* the Python code does.                                                   *)
(***************************************************************************)
EXTENDS Integers, Sequences, FiniteSets, TLC

VARIABLES
    \* ---- the gateway (client.py) ----
    gwPc,        \* "idle" | "streaming" | "returned" | "raised"
    gwMethod,    \* the gateway call in progress / last made
    gwAttempts,  \* HTTP requests issued by that call
    gwResp,      \* the HTTP response received (NoResponse if none arrived)
    gwFail,      \* transport outcome: "none" | "timeout" | "error"
    gwResult,    \* the value the call returned
    gwError,     \* the exception the call raised
    gwPrinted,   \* the panel the gateway printed on the console
    lines,       \* the lines of the streaming response body
    pos,         \* the next line the streaming reader will read
    yielded,     \* the objects the streaming reader yielded so far
    \* ---- the cache (models.py AppState) ----
    documents, notes, notifications, integrations, automations,
    document_index, note_index, notification_index, integration_index,
    automation_index,
    lastFetch,   \* the last list fetch applied to the cache
    \* ---- the session (tui.py SelfLayerCLI) ----
    client,      \* "none" | "open" | "closed"
    lastCmd,     \* what the last command did
    api,         \* the fields of the session's SelfLayerAPIClient
    running,     \* SelfLayerCLI.running
    user_profile, \* AppState.user_profile: None, or the profile of a key
    \* ---- the config store (config.py) and the process environment ----
    env,         \* SELFLAYER_API_KEY and SELFLAYER_BASE_URL
    config,      \* ConfigManager._config
    file,        \* CONFIG_FILE
    now,         \* the clock read by datetime.utcnow()
    lastOp,      \* what the last ConfigManager call did
    \* ---- the command loop, step by step (tui.py SelfLayerCLI.run) ----
    handling,    \* the handler that is running, "none" at the prompt
    step,        \* the step of the handler that comes next
    inflight,    \* the requests that have begun and have not ended
    \* ---- one Document record and what was displayed of it (models.py) ----
    file_size,   \* Document.file_size
    size_texts   \* the texts that get_size_display has returned, in order

gwVars == <<gwPc, gwMethod, gwAttempts, gwResp, gwFail, gwResult, gwError,
            gwPrinted, lines, pos, yielded>>
listVars == <<documents, notes, notifications, integrations, automations>>
indexVars == <<document_index, note_index, notification_index,
               integration_index, automation_index>>
cacheVars == <<listVars, indexVars>>
cfgVars == <<config, file, now, lastOp>>
loopVars == <<handling, step, inflight>>
recVars == <<file_size, size_texts>>
vars == <<gwVars, cacheVars, lastFetch, client, lastCmd, api, running, env,
          cfgVars, loopVars, recVars,
          user_profile>>

----------------------------------------------------------------------------
(* Bounds of the model. *)

\* longest streaming body, in lines
MaxLines == 3
\* most records the cache holds over all list kinds together
MaxCached == 2
\* last reading of the clock
MaxTime == 2
\* most displays of one Document record
MaxDisplays == 3

Range(s) == {s[i] : i \in 1..Len(s)}

----------------------------------------------------------------------------
(* Text: str.strip, str.startswith, json.loads *)

\* the JSON texts that occur in bodies and lines
JsonTokens == {"{a}", "{b}", "{detail}", "[a]"}
\* every piece of text that occurs
Tokens == JsonTokens \cup {"data: ", " ", "[DONE]", "junk"}

Absent == "<absent>"

\* what a JSON text denotes
\*   {a}      {"content": "a"}
\*   {b}      {"content": "b"}
\*   {detail} {"detail": "quota exceeded"}
\*   [a]      [{"content": "a"}]
Decode(tok) ==
    CASE tok = "{a}" -> [type |-> "dict", detail |-> Absent, content |-> "a"]
      [] tok = "{b}" -> [type |-> "dict", detail |-> Absent, content |-> "b"]
      [] tok = "{detail}" ->
            [type |-> "dict", detail |-> "quota exceeded", content |-> Absent]
      [] tok = "[a]" -> [type |-> "list", detail |-> Absent, content |-> "a"]

\* no value at all (nothing was returned)
NoValue == [type |-> "nothing", detail |-> Absent, content |-> Absent]
\* Python's None
NoneValue == [type |-> "None", detail |-> Absent, content |-> Absent]

RECURSIVE lstrip(_)
lstrip(s) == IF s # <<>> /\ Head(s) = " " THEN lstrip(Tail(s)) ELSE s

RECURSIVE rstrip(_)
rstrip(s) ==
    IF s # <<>> /\ s[Len(s)] = " " THEN rstrip(SubSeq(s, 1, Len(s) - 1)) ELSE s

strip(s) == rstrip(lstrip(s))

startswith(s, prefix) == s # <<>> /\ Head(s) = prefix

\* json.loads: surrounding whitespace is allowed, then exactly one JSON text;
\* anything else raises JSONDecodeError (ok = FALSE)
json_loads(s) ==
    LET t == strip(s)
    IN  IF Len(t) = 1 /\ t[1] \in JsonTokens
        THEN [ok |-> TRUE, value |-> Decode(t[1])]
        ELSE [ok |-> FALSE, value |-> NoValue]

----------------------------------------------------------------------------
(* HTTP responses as httpx hands them to the gateway *)

Statuses == {200, 201, 204, 304, 401, 403, 404, 422, 429, 500}

BodyTexts == { <<>>, <<"{a}">>, <<"{detail}">>, <<"[a]">>, <<"junk">>,
               <<" ", "{a}", " ">> }

\* read: the body has been loaded (always, except inside client.stream(...))
Responses(read) == [status : Statuses, body : BodyTexts, read : {read}]

NoResponse == [status |-> 0, body |-> <<>>, read |-> FALSE]

\* httpx.Response.is_success
is_success(resp) == 200 <= resp.status /\ resp.status <= 299

NoError == [kind |-> "none", msg |-> <<>>]
NoPanel == [title |-> "", msg |-> <<>>]

\* response.json() and response.text raise httpx.ResponseNotRead on a
\* streaming response whose body has not been read
response_json(resp) ==
    IF ~resp.read THEN [raised |-> "ResponseNotRead", value |-> NoValue]
    ELSE LET r == json_loads(resp.body)
         IN  IF r.ok THEN [raised |-> "none", value |-> r.value]
             ELSE [raised |-> "JSONDecodeError", value |-> NoValue]

PanelTitle(status) ==
    CASE status = 401 -> "Authentication Error"
      [] status = 403 -> "Permission Denied"
      [] status = 404 -> "Not Found"
      [] status = 422 -> "Validation Error"
      [] status = 429 -> "Rate Limited"
      [] OTHER -> "API Error"

PanelHint(status) ==
    CASE status = 401 -> <<"Check your SELFLAYER_API_KEY environment variable.">>
      [] status = 403 -> <<"Your API key may not have sufficient permissions.">>
      [] status = 429 -> <<"Please wait and try again.">>
      [] OTHER -> <<>>

\* the mutant of _handle_error: the server's detail is not looked up
_handle_error_no_detail(resp) ==
    IF ~resp.read
    THEN [raised |-> "ResponseNotRead", panel |-> NoPanel]
    ELSE [raised |-> "none",
          panel |-> [title |-> PanelTitle(resp.status),
                     msg |-> <<"HTTP ", ToString(resp.status)>>
                                 \o PanelHint(resp.status)]]

\* _handle_error: the panel for a non-success response. response.json() is
\* tried first; on any exception the message falls back to the raw text, and
\* an exception of response.text itself leaves the function.
_handle_error(resp) ==
    LET j == response_json(resp)
        code == ToString(resp.status)
        error_msg ==
            IF j.raised = "none" /\ j.value.type = "dict"
            THEN IF j.value.detail # Absent THEN <<j.value.detail>>
                 ELSE <<"HTTP ", code>>
            ELSE <<"HTTP ", code, ": ">> \o resp.body
    IN  IF ~resp.read
        THEN [raised |-> "ResponseNotRead", panel |-> NoPanel]
        ELSE [raised |-> "none",
              panel |-> [title |-> PanelTitle(resp.status),
                         msg |-> error_msg \o PanelHint(resp.status)]]

\* what one awaited HTTP request can come to
Outcomes(read) ==
    [fail : {"none"}, resp : Responses(read)]
        \cup [fail : {"timeout", "error"}, resp : {NoResponse}]

Methods == {"GET", "POST", "PUT", "PATCH", "DELETE"}

Raised(error, panel) ==
    [pc |-> "raised", attempts |-> 1, result |-> NoValue,
     error |-> error, printed |-> panel]

Returned(value) ==
    [pc |-> "returned", attempts |-> 1, result |-> value,
     error |-> NoError, printed |-> NoPanel]

\* the mutant of transport_error: the two except clauses in the other
\* order, so that the RequestError clause takes the timeouts too
transport_error_swapped(call, fail) ==
    [kind |-> "APIError",
     msg |-> <<IF call = "Stream" THEN "Stream error for "
               ELSE "Request error for ", "<endpoint>">>]

\* the except clauses of a gateway call: httpx.TimeoutException first, then
\* httpx.RequestError, each re-raised as APIError
transport_error(call, fail) ==
    [kind |-> "APIError",
     msg |-> <<CASE call = "Stream" /\ fail = "timeout" -> "Stream timeout for "
                 [] call = "Stream" /\ fail # "timeout" -> "Stream error for "
                 [] call # "Stream" /\ fail = "timeout" -> "Request timeout for "
                 [] OTHER -> "Request error for ",
               "<endpoint>">>]

\* raise APIError(f"API request failed: {response.status_code}"), after the
\* panel of _handle_error has been printed
status_error(call, resp, panel) ==
    Raised([kind |-> "APIError",
            msg |-> <<IF call = "Stream" THEN "API stream failed: "
                      ELSE "API request failed: ",
                      ToString(resp.status)>>],
           panel)

\* the mutant of success_value: 204 returns None whatever the method
success_value_any_204(method, resp) ==
    IF resp.status = 204 THEN [raised |-> "none", value |-> NoneValue]
    ELSE response_json(resp)

\* what a call returns for a success response: response.json(), and for
\* delete None when the status is 204
success_value(method, resp) ==
    IF method = "DELETE" /\ resp.status = 204
    THEN [raised |-> "none", value |-> NoneValue]
    ELSE response_json(resp)

\* the body shared by get / post / put / patch / delete: one request, then
\* the response check, then the value
request(method, o) ==
    IF o.fail # "none"
    THEN Raised(transport_error("Request", o.fail), NoPanel)
    ELSE IF ~is_success(o.resp)
    THEN LET h == _handle_error(o.resp)
         IN  IF h.raised # "none"
             THEN Raised([kind |-> h.raised, msg |-> <<>>], NoPanel)
             ELSE status_error("Request", o.resp, h.panel)
    ELSE LET v == success_value(method, o.resp)
         IN  IF v.raised # "none"
             THEN Raised([kind |-> v.raised, msg |-> <<>>], NoPanel)
             ELSE Returned(v.value)

\* the opening of stream(): the request, then the response check, made on
\* the response of client.stream(...), whose body has not been read
stream_open(o) ==
    IF o.fail # "none"
    THEN Raised(transport_error("Stream", o.fail), NoPanel)
    ELSE IF ~is_success(o.resp)
    THEN LET h == _handle_error(o.resp)
         IN  IF h.raised # "none"
             THEN Raised([kind |-> h.raised, msg |-> <<>>], NoPanel)
             ELSE status_error("Stream", o.resp, h.panel)
    ELSE [pc |-> "streaming", attempts |-> 1, result |-> NoValue,
          error |-> NoError, printed |-> NoPanel]

\* the mutant of read_line for the sentinel: the sentinel is not looked for
read_line_no_sentinel(line) ==
    IF strip(line) = <<>> THEN [stop |-> FALSE, out |-> <<>>]
    ELSE LET j == json_loads(IF startswith(line, "data: ") THEN Tail(line)
                             ELSE line)
         IN  [stop |-> FALSE, out |-> IF j.ok THEN <<j.value>> ELSE <<>>]

\* the mutant of read_line for malformed lines: a line that does not parse
\* ends the loop
read_line_fatal(line) ==
    IF strip(line) = <<>> THEN [stop |-> FALSE, out |-> <<>>]
    ELSE IF startswith(line, "data: ") /\ strip(Tail(line)) = <<"[DONE]">>
    THEN [stop |-> TRUE, out |-> <<>>]
    ELSE LET j == json_loads(IF startswith(line, "data: ") THEN Tail(line)
                             ELSE line)
         IN  [stop |-> ~j.ok, out |-> IF j.ok THEN <<j.value>> ELSE <<>>]

\* the body of the reader's loop for one line: stop (break) or go on, and
\* the objects yielded
read_line(line) ==
    IF strip(line) = <<>> THEN [stop |-> FALSE, out |-> <<>>]
    ELSE IF startswith(line, "data: ")
    THEN LET json_str == Tail(line)
         IN  IF strip(json_str) = <<"[DONE]">>
             THEN [stop |-> TRUE, out |-> <<>>]
             ELSE LET j == json_loads(json_str)
                  IN  [stop |-> FALSE,
                       out |-> IF j.ok THEN <<j.value>> ELSE <<>>]
    ELSE LET j == json_loads(line)
         IN  [stop |-> FALSE, out |-> IF j.ok THEN <<j.value>> ELSE <<>>]

\* the lines a streaming body is made of
LineSet == { <<"data: ", "{a}">>, <<"data: ", "{b}">>, <<"{a}">>,
             <<"data: ", "[DONE]">>, <<"data: ", " ", "[DONE]", " ">>,
             <<"[DONE]">>, <<" ">>, <<"junk">>, <<"data: ", "junk">> }

LineSeqs == UNION { [1..n -> LineSet] : n \in 0..MaxLines }

----------------------------------------------------------------------------
(* The gateway's calls *)

otherVarsOfGateway ==
    <<cacheVars, lastFetch, client, lastCmd, api, running, env, cfgVars,
      loopVars, recVars,
      user_profile>>

\* one call of the gateway is followed from its start to its end
Call(method) ==
    /\ gwPc = "idle"
    /\ \E o \in Outcomes(TRUE) :
          LET r == request(method, o)
          IN  /\ gwPc' = r.pc
              /\ gwMethod' = method
              /\ gwAttempts' = r.attempts
              /\ gwResp' = o.resp
              /\ gwFail' = o.fail
              /\ gwResult' = r.result
              /\ gwError' = r.error
              /\ gwPrinted' = r.printed
    /\ lines' = <<>> /\ pos' = 1 /\ yielded' = <<>>
    /\ UNCHANGED otherVarsOfGateway

get == Call("GET")
post == Call("POST")
put == Call("PUT")
patch == Call("PATCH")
delete == Call("DELETE")

stream ==
    /\ gwPc = "idle"
    /\ \E o \in Outcomes(FALSE), ls \in LineSeqs :
          LET r == stream_open(o)
          IN  /\ gwPc' = r.pc
              /\ gwMethod' = "STREAM"
              /\ gwAttempts' = r.attempts
              /\ gwResp' = o.resp
              /\ gwFail' = o.fail
              /\ gwResult' = r.result
              /\ gwError' = r.error
              /\ gwPrinted' = r.printed
              /\ lines' = IF r.pc = "streaming" THEN ls ELSE <<>>
    /\ pos' = 1 /\ yielded' = <<>>
    /\ UNCHANGED otherVarsOfGateway

\* the reader takes the next line of the body
stream_line ==
    /\ gwPc = "streaming"
    /\ pos <= Len(lines)
    /\ LET r == read_line(lines[pos])
       IN  /\ yielded' = yielded \o r.out
           /\ gwPc' = IF r.stop THEN "returned" ELSE "streaming"
    /\ pos' = pos + 1
    /\ UNCHANGED <<gwMethod, gwAttempts, gwResp, gwFail, gwResult, gwError,
                   gwPrinted, lines>>
    /\ UNCHANGED otherVarsOfGateway

\* the body is exhausted: the generator returns
stream_end ==
    /\ gwPc = "streaming"
    /\ pos > Len(lines)
    /\ gwPc' = "returned"
    /\ UNCHANGED <<gwMethod, gwAttempts, gwResp, gwFail, gwResult, gwError,
                   gwPrinted, lines, pos, yielded>>
    /\ UNCHANGED otherVarsOfGateway

\* the transport fails while the reader waits for a line
stream_fail ==
    /\ gwPc = "streaming"
    /\ \E f \in {"timeout", "error"} :
          /\ gwFail' = f
          /\ gwError' = transport_error("Stream", f)
    /\ gwPc' = "raised"
    /\ UNCHANGED <<gwMethod, gwAttempts, gwResp, gwResult, gwPrinted, lines,
                   pos, yielded>>
    /\ UNCHANGED otherVarsOfGateway

----------------------------------------------------------------------------
(* The cache: AppState of models.py *)

\* identifiers the remote service hands out (opaque strings; the empty
\* string is a string too)
Ids == {"", "a", "b"}

\* one element of a list response; valid = FALSE is an element the record
\* model rejects (a required field is missing): its constructor raises
Items == [id : Ids, valid : {TRUE}] \cup {[id |-> "", valid |-> FALSE]}

ItemSeqs(n) == UNION { [1..m -> Items] : m \in 0..n }

Kinds == {"documents", "notes", "notifications", "integrations", "automations"}

\* the key under which a list endpoint wraps its list, if it wraps it
ListKey(kind) == IF kind = "integrations" THEN "connections" ELSE kind

\* a list endpoint's JSON: the list itself, or an object holding it under
\* the expected key, or an object without that key
ListResponses(kind, n) ==
    [form : {"list"}, key : {""}, items : ItemSeqs(n)]
        \cup [form : {"dict"}, key : {ListKey(kind)}, items : ItemSeqs(n)]
        \cup [form : {"dict"}, key : {"data"}, items : {<<[id |-> "a", valid |-> TRUE]>>}]

\* client.list_documents / list_notes / list_notifications /
\* list_integrations / list_automations on the JSON the endpoint returned
list_items(kind, response) ==
    IF response.form = "list" THEN response.items
    ELSE IF response.key = ListKey(kind) THEN response.items
    ELSE <<>>

\* [Document(**doc) for doc in documents_data]
Validates(data) == \A i \in 1..Len(data) : data[i].valid
RecordsOf(data) == [i \in 1..Len(data) |-> [id |-> data[i].id]]

\* the mutant of BuildIndex: the positions numbered from the end of the list
BuildIndex_reversed(records) ==
    [i \in 1..Len(records) |-> records[Len(records) - i + 1].id]

\* {i + 1: doc.id for i, doc in enumerate(self.documents)}
BuildIndex(records) == [i \in 1..Len(records) |-> records[i].id]

ListOf(kind) ==
    CASE kind = "documents" -> documents
      [] kind = "notes" -> notes
      [] kind = "notifications" -> notifications
      [] kind = "integrations" -> integrations
      [] kind = "automations" -> automations

IndexOf(kind) ==
    CASE kind = "documents" -> document_index
      [] kind = "notes" -> note_index
      [] kind = "notifications" -> notification_index
      [] kind = "integrations" -> integration_index
      [] kind = "automations" -> automation_index

CachedCount ==
    Len(documents) + Len(notes) + Len(notifications) + Len(integrations)
        + Len(automations)

\* room left for a list of this kind under MaxCached
Room(kind) == MaxCached - (CachedCount - Len(ListOf(kind)))

\* the two assignments of an update_* method; nothing is assigned when a
\* record constructor raises
update_documents(data) ==
    IF Validates(data)
    THEN /\ documents' = RecordsOf(data)
         /\ document_index' = BuildIndex(RecordsOf(data))
    ELSE UNCHANGED <<documents, document_index>>

update_notes(data) ==
    IF Validates(data)
    THEN /\ notes' = RecordsOf(data)
         /\ note_index' = BuildIndex(RecordsOf(data))
    ELSE UNCHANGED <<notes, note_index>>

update_notifications(data) ==
    IF Validates(data)
    THEN /\ notifications' = RecordsOf(data)
         /\ notification_index' = BuildIndex(RecordsOf(data))
    ELSE UNCHANGED <<notifications, notification_index>>

update_integrations(data) ==
    IF Validates(data)
    THEN /\ integrations' = RecordsOf(data)
         /\ integration_index' = BuildIndex(RecordsOf(data))
    ELSE UNCHANGED <<integrations, integration_index>>

update_automations(data) ==
    IF Validates(data)
    THEN /\ automations' = RecordsOf(data)
         /\ automation_index' = BuildIndex(RecordsOf(data))
    ELSE UNCHANGED <<automations, automation_index>>

\* the update_* method of a kind, the other kinds left alone
Update(kind, data) ==
    /\ IF kind = "documents" THEN update_documents(data)
       ELSE UNCHANGED <<documents, document_index>>
    /\ IF kind = "notes" THEN update_notes(data)
       ELSE UNCHANGED <<notes, note_index>>
    /\ IF kind = "notifications" THEN update_notifications(data)
       ELSE UNCHANGED <<notifications, notification_index>>
    /\ IF kind = "integrations" THEN update_integrations(data)
       ELSE UNCHANGED <<integrations, integration_index>>
    /\ IF kind = "automations" THEN update_automations(data)
       ELSE UNCHANGED <<automations, automation_index>>

NoId == "<none>"
NoRecord == [id |-> NoId]

\* next((doc for doc in self.documents if doc.id == doc_id), None)
FirstWithId(records, id) ==
    IF \E j \in 1..Len(records) : records[j].id = id
    THEN records[CHOOSE j \in 1..Len(records) :
                    /\ records[j].id = id
                    /\ \A k \in 1..(j - 1) : records[k].id # id]
    ELSE NoRecord

\* get_document_by_index and its four siblings: index.get(i), then the
\* truth test of the identifier, then the search of the list
get_by_index(records, index, i) ==
    IF i \in DOMAIN index /\ index[i] # ""
    THEN FirstWithId(records, index[i])
    ELSE NoRecord

get_document_by_index(i) == get_by_index(documents, document_index, i)
get_note_by_index(i) == get_by_index(notes, note_index, i)
get_notification_by_index(i) ==
    get_by_index(notifications, notification_index, i)
get_integration_by_index(i) == get_by_index(integrations, integration_index, i)
get_automation_by_index(i) == get_by_index(automations, automation_index, i)

NoFetch == [kind |-> "none", items |-> <<>>, ok |-> FALSE]

\* a list fetch as the cache sees it: the client's list_* call on the
\* endpoint's JSON, then the update_* method
FetchInto(kind) ==
    \E response \in ListResponses(kind, Room(kind)) :
        LET data == list_items(kind, response)
        IN  /\ Update(kind, data)
            /\ lastFetch' = [kind |-> kind,
                             items |-> IF Validates(data) THEN data ELSE <<>>,
                             ok |-> Validates(data)]

otherVarsOfState ==
    <<gwVars, client, lastCmd, api, running, env, cfgVars, loopVars,
      recVars,
      user_profile>>

fetch_documents == FetchInto("documents") /\ UNCHANGED otherVarsOfState
fetch_notes == FetchInto("notes") /\ UNCHANGED otherVarsOfState
fetch_notifications == FetchInto("notifications") /\ UNCHANGED otherVarsOfState
fetch_integrations == FetchInto("integrations") /\ UNCHANGED otherVarsOfState
fetch_automations == FetchInto("automations") /\ UNCHANGED otherVarsOfState

\* clear_all_data without the assignment of document_index
clear_all_data_keeping_an_index ==
    /\ documents' = <<>> /\ notes' = <<>> /\ notifications' = <<>>
    /\ integrations' = <<>> /\ automations' = <<>>
    /\ note_index' = <<>>
    /\ notification_index' = <<>> /\ integration_index' = <<>>
    /\ automation_index' = <<>>
    /\ UNCHANGED document_index

\* AppState.clear_all_data, as far as lists and indexes go
clear_all_data ==
    /\ documents' = <<>> /\ notes' = <<>> /\ notifications' = <<>>
    /\ integrations' = <<>> /\ automations' = <<>>
    /\ document_index' = <<>> /\ note_index' = <<>>
    /\ notification_index' = <<>> /\ integration_index' = <<>>
    /\ automation_index' = <<>>

clear_cache ==
    /\ CachedCount > 0
    /\ clear_all_data
    /\ lastFetch' = NoFetch
    /\ UNCHANGED otherVarsOfState

----------------------------------------------------------------------------
(* The config store: SelfLayerConfig and ConfigManager of config.py.       *)
(* A key is text, as a line of the stream is: a sequence of tokens.        *)

\* Optional[str]: None
NoneKey == <<"<None>">>

\* Python's truth of an Optional[str]
Truthy(text) == text # NoneKey /\ text # <<>>

ValidKeys == {<<"sl_live_", "1">>, <<"sl_test_", "2">>}

\* the texts given as an API key
KeyTexts ==
    ValidKeys \cup {<<>>, <<" ">>, <<"bad">>, <<" ", "sl_test_", "2">>}

\* Field(default="https://api.selflayer.com/api/v1")
StoredBaseUrl == "https://api.selflayer.com/api/v1"
BaseUrls == {StoredBaseUrl, "https://stored.example/api"}

\* Optional[str] = None of created_at and updated_at
NoTime == 0
Times == 1..MaxTime

\* SelfLayerConfig(created_at=datetime.utcnow().isoformat())
DefaultConfig(t) ==
    [api_key |-> NoneKey, base_url |-> StoredBaseUrl, log_level |-> "INFO",
     created_at |-> t, updated_at |-> NoTime]

\* ConfigManager._config = None
NoConfig ==
    [api_key |-> NoneKey, base_url |-> "<no config>", log_level |-> "",
     created_at |-> NoTime, updated_at |-> NoTime]

Configs ==
    [api_key : {NoneKey, <<"sl_live_", "1">>}, base_url : BaseUrls,
     log_level : {"INFO"}, created_at : {NoTime, 1}, updated_at : {1}]

\* CONFIG_FILE: not there, a JSON text of a configuration, or what is left
\* of a write that failed (no JSON text)
NoFile == [state |-> "absent", data |-> NoConfig, mode |-> ""]
Files ==
    {NoFile} \cup [state : {"json"}, data : Configs, mode : {"0600", "0644"}]
             \cup {[state |-> "broken", data |-> NoConfig, mode |-> "0600"]}

\* the mutant of set_api_key: the prefix is not looked at
set_api_key_any_prefix(cfg, api_key) ==
    IF ~Truthy(api_key) \/ strip(api_key) = <<>>
    THEN [raised |-> "API key cannot be empty", config |-> cfg]
    ELSE [raised |-> "",
          config |-> [cfg EXCEPT !.api_key = strip(api_key)]]

\* SelfLayerConfig.set_api_key: ValueError, or the stripped key is stored
set_api_key(cfg, api_key) ==
    IF ~Truthy(api_key) \/ strip(api_key) = <<>>
    THEN [raised |-> "API key cannot be empty", config |-> cfg]
    ELSE IF ~(startswith(strip(api_key), "sl_live_")
              \/ startswith(strip(api_key), "sl_test_"))
    THEN [raised |-> "Invalid API key format", config |-> cfg]
    ELSE [raised |-> "",
          config |-> [cfg EXCEPT !.api_key = strip(api_key)]]

\* ConfigManager.load_config, for a manager that holds no configuration
\* yet: the file's configuration, with created_at filled in if it has
\* none, or the defaults if there is no file or no JSON text in it
loaded(f, t) ==
    IF f.state = "json"
    THEN IF f.data.created_at = NoTime
         THEN [f.data EXCEPT !.created_at = t]
         ELSE f.data
    ELSE DefaultConfig(t)

\* ConfigManager.get_config
get_config(cfg, f, t) == IF cfg = NoConfig THEN loaded(f, t) ELSE cfg

\* self._config.model_dump(exclude_none=False): every field
model_dump(cfg) ==
    [api_key |-> cfg.api_key, base_url |-> cfg.base_url,
     log_level |-> cfg.log_level, created_at |-> cfg.created_at,
     updated_at |-> cfg.updated_at]

\* how the write of save_config can go
SaveOutcomes == {"saved", "open fails", "write fails", "chmod fails"}

\* the mode of a file that open(..., "w") made or found
opened_mode(f) == IF f.state = "absent" THEN "0644" ELSE f.mode

\* the mutant of written: the mode is left as open() made it
written_without_chmod(f, cfg, outcome) ==
    CASE outcome = "open fails" -> f
      [] outcome = "write fails" ->
            [state |-> "broken", data |-> NoConfig, mode |-> opened_mode(f)]
      [] OTHER ->
            [state |-> "json", data |-> model_dump(cfg),
             mode |-> opened_mode(f)]

\* the file after the try block of save_config
written(f, cfg, outcome) ==
    CASE outcome = "open fails" -> f
      [] outcome = "write fails" ->
            [state |-> "broken", data |-> NoConfig, mode |-> opened_mode(f)]
      [] outcome = "chmod fails" ->
            [state |-> "json", data |-> model_dump(cfg),
             mode |-> opened_mode(f)]
      [] outcome = "saved" ->
            [state |-> "json", data |-> model_dump(cfg), mode |-> "0600"]

\* ConfigManager.save_config(cfg): the configuration it keeps, the file it
\* leaves and what it returns
save(cfg, f, t, outcome) ==
    IF cfg = NoConfig
    THEN [config |-> cfg, file |-> f, result |-> FALSE]
    ELSE LET stamped == [cfg EXCEPT !.updated_at = t]
         IN  [config |-> stamped, file |-> written(f, stamped, outcome),
              result |-> outcome = "saved"]

\* ConfigManager.update_api_key: an exception of set_api_key is caught and
\* False returned
update(cfg, f, t, api_key, outcome) ==
    LET set == set_api_key(get_config(cfg, f, t), api_key)
    IN  IF set.raised # ""
        THEN [config |-> get_config(cfg, f, t), file |-> f, result |-> FALSE]
        ELSE save(set.config, f, t, outcome)

\* ConfigManager.clear_api_key
clear(cfg, f, t, outcome) ==
    save([get_config(cfg, f, t) EXCEPT !.api_key = NoneKey], f, t, outcome)

\* ConfigManager.get_api_key
get_api_key(cfg, f, t) == get_config(cfg, f, t).api_key

\* the environment: a variable that is not set reads as None
NoEnv == [api_key |-> NoneKey, base_url |-> NoneKey]
EnvKey == <<"sl_live_", "E">>
EnvUrl == <<"https://env.example/api">>
Envs == [api_key : {NoneKey, EnvKey}, base_url : {NoneKey, EnvUrl}]

\* ConfigManager.get_effective_api_key
get_effective_api_key(e, cfg, f, t) ==
    IF Truthy(e.api_key) THEN strip(e.api_key) ELSE get_api_key(cfg, f, t)

\* ConfigManager.get_effective_base_url
get_effective_base_url(e, cfg, f, t) ==
    IF Truthy(e.base_url) THEN strip(e.base_url)
    ELSE <<get_config(cfg, f, t).base_url>>

NoOp == [op |-> "none", arg |-> NoneKey, result |-> FALSE, at |-> NoTime,
         before |-> NoConfig, fileBefore |-> NoFile]

otherVarsOfConfig ==
    <<gwVars, cacheVars, lastFetch, client, lastCmd, api, running, env,
      loopVars, recVars,
      user_profile>>

\* a call of the manager: what it keeps, what it leaves, what it returns
ConfigCall(op, arg, r) ==
    /\ config' = r.config
    /\ file' = r.file
    /\ lastOp' = [op |-> op, arg |-> arg, result |-> r.result, at |-> now,
                  before |-> config, fileBefore |-> file]
    /\ UNCHANGED <<now, otherVarsOfConfig>>

load_config ==
    ConfigCall("load_config", NoneKey,
               [config |-> get_config(config, file, now), file |-> file,
                result |-> TRUE])

save_config ==
    \E outcome \in SaveOutcomes :
        ConfigCall("save_config", NoneKey, save(config, file, now, outcome))

update_api_key ==
    \E api_key \in KeyTexts \cup {NoneKey}, outcome \in SaveOutcomes :
        ConfigCall("update_api_key", api_key,
                   update(config, file, now, api_key, outcome))

clear_api_key ==
    \E outcome \in SaveOutcomes :
        ConfigCall("clear_api_key", NoneKey, clear(config, file, now, outcome))

reset_config ==
    \E outcome \in SaveOutcomes :
        ConfigCall("reset_config", NoneKey,
                   save(DefaultConfig(now), file, now, outcome))

\* time passes
tick ==
    /\ now < MaxTime
    /\ now' = now + 1
    /\ UNCHANGED <<config, file, lastOp, otherVarsOfConfig>>

----------------------------------------------------------------------------
(* The client object: SelfLayerAPIClient.__init__ and the headers and the  *)
(* address of the requests it sends.                                       *)

\* DEFAULT_BASE_URL
DEFAULT_BASE_URL == "http://localhost:8001/api/v1"

NoHeaders == [Authorization |-> <<>>, ContentType |-> <<>>, UserAgent |-> <<>>]

\* no SelfLayerAPIClient
NoApi == [api_key |-> NoneKey, base_url |-> "", headers |-> NoHeaders]

\* the mutant of Headers: the key is left out of the Authorization header
Headers_without_key(api_key) ==
    [Authorization |-> <<"Bearer ">>,
     ContentType |-> <<"application/json">>,
     UserAgent |-> <<"SelfTUI/2.0.0 (SelfLayer Terminal Client)">>]

\* self.headers
Headers(api_key) ==
    [Authorization |-> <<"Bearer ">> \o api_key,
     ContentType |-> <<"application/json">>,
     UserAgent |-> <<"SelfTUI/2.0.0 (SelfLayer Terminal Client)">>]

\* SelfLayerAPIClient(api_key, base_url = DEFAULT_BASE_URL): APIError if no
\* key is given and none is in effect
new_client(api_key, e, cfg, f, t) ==
    LET key == IF Truthy(api_key) THEN api_key
               ELSE get_effective_api_key(e, cfg, f, t)
    IN  IF ~Truthy(key)
        THEN [raised |-> TRUE, api |-> NoApi]
        ELSE [raised |-> FALSE,
              api |-> [api_key |-> key, base_url |-> DEFAULT_BASE_URL,
                       headers |-> Headers(key)]]

\* httpx: the headers of a request are those of the client, with the ones
\* given to the call in place of the client's
merged(clientHeaders, callHeaders) ==
    [h \in DOMAIN clientHeaders |->
        IF callHeaders[h] = <<>> THEN clientHeaders[h] ELSE callHeaders[h]]

\* post(files=...): {k: v for k, v in self.headers.items() if k !=
\* "Content-Type"} is given to the call; every other call gives none
call_headers(a, files) ==
    IF files THEN [a.headers EXCEPT !.ContentType = <<>>] ELSE NoHeaders

\* a request the client a sends, as the service gets it
Sent(a, op, id, how) ==
    [op |-> op, id |-> id, ok |-> how = "ok", how |-> how,
     base |-> a.base_url,
     headers |-> merged(a.headers, call_headers(a, op = "upload_document"))]

----------------------------------------------------------------------------
(* Initial states and the specifications of the gateway and of the cache *)

\* a key that the JSON body of a request does not have
NoField == <<"<absent>">>
\* data = {}
NoBody == [title |-> NoField, content |-> NoField]

NoCmd == [cmd |-> "none", kind |-> "none", isnum |-> FALSE, index |-> 0,
          target |-> NoId, out |-> <<>>, calls |-> <<>>, rebuilt |-> FALSE,
          token |-> "", key |-> NoneKey, content |-> NoneKey,
          body |-> NoBody]

InitGateway ==
    /\ gwPc = "idle" /\ gwMethod = "none" /\ gwAttempts = 0
    /\ gwResp = NoResponse /\ gwFail = "none" /\ gwResult = NoValue
    /\ gwError = NoError /\ gwPrinted = NoPanel
    /\ lines = <<>> /\ pos = 1 /\ yielded = <<>>

\* AppState(): every list and index empty
InitCache ==
    /\ documents = <<>> /\ notes = <<>> /\ notifications = <<>>
    /\ integrations = <<>> /\ automations = <<>>
    /\ document_index = <<>> /\ note_index = <<>>
    /\ notification_index = <<>> /\ integration_index = <<>>
    /\ automation_index = <<>>
    /\ lastFetch = NoFetch

\* ConfigManager(): no configuration held yet, the file as it is found
InitConfig ==
    /\ config = NoConfig /\ file \in Files /\ now = 1 /\ lastOp = NoOp

\* no Document record is displayed
NoSize == [n |-> 0 - 1, d |-> 0]
InitNoRecord == file_size = NoSize /\ size_texts = <<>>

\* run has not taken a command yet
InitLoop == handling = "none" /\ step = 1 /\ inflight = {}

\* Optional[Profile]: None
NoProfile == <<"no profile">>

InitSessionIdle ==
    /\ client = "none" /\ lastCmd = NoCmd /\ api = NoApi /\ running = TRUE
    /\ env = NoEnv /\ InitLoop /\ user_profile = NoProfile

InitIdle ==
    /\ InitGateway /\ InitCache /\ InitSessionIdle /\ InitNoRecord
    /\ config = NoConfig /\ file = NoFile /\ now = 1 /\ lastOp = NoOp

NextConfig ==
    \/ load_config \/ save_config \/ update_api_key \/ clear_api_key
    \/ reset_config \/ tick

\* a manager just made, over any file
InitStore ==
    InitGateway /\ InitCache /\ InitSessionIdle /\ InitConfig /\ InitNoRecord

SpecConfig == InitStore /\ [][NextConfig]_vars

NextGateway ==
    \/ get \/ post \/ put \/ patch \/ delete
    \/ stream \/ stream_line \/ stream_end \/ stream_fail

SpecGateway == InitIdle /\ [][NextGateway]_vars

NextState ==
    \/ fetch_documents \/ fetch_notes \/ fetch_notifications
    \/ fetch_integrations \/ fetch_automations
    \/ clear_cache

SpecState == InitIdle /\ [][NextState]_vars

----------------------------------------------------------------------------
(* The session: SelfLayerCLI of tui.py. A command is taken at the prompt   *)
(* and its handler runs to its end, with the answers of the network and of *)
(* the user drawn as they come; then the loop is back at the prompt.       *)

otherVarsOfSession ==
    <<gwVars, lastFetch, api, running, env, cfgVars, loopVars, recVars,
    user_profile>>

AtPrompt == lastCmd = NoCmd /\ running

\* the tokens that _execute_command lets through without a client
NoClientTokens ==
    {"/help", "/h", "help", "/key", "/k", "key", "/clear", "/c", "clear",
     "/quit", "/q", "quit", "exit"}

\* the if / elif chain of _execute_command
Route(command) ==
    CASE command \in {"/help", "help", "/h"} -> "cmd_help"
      [] command \in {"/key", "key", "/k"} -> "cmd_key"
      [] command \in {"/ask", "ask", "/a"} -> "cmd_ask"
      [] command \in {"/search", "search", "/s"} -> "cmd_search"
      [] command \in {"/documents", "documents", "/d"} -> "cmd_documents"
      [] command \in {"/notes", "notes", "/n"} -> "cmd_notes"
      [] command \in {"/integrations", "integrations", "/i"} ->
            "cmd_integrations"
      [] command \in {"/automations", "automations", "/auto"} ->
            "cmd_automations"
      [] command \in {"/notifications", "notifications", "/notifs"} ->
            "cmd_notifications"
      [] command \in {"/rms", "rms", "/r"} -> "cmd_rms"
      [] command \in {"/clear", "clear", "/c"} -> "cmd_clear"
      [] command \in {"/quit", "/exit", "quit", "exit", "/q"} -> "cmd_quit"
      [] OTHER -> "unknown"

\* the methods of SelfLayerCLI that the chain names and the class defines
Handlers ==
    {"cmd_help", "cmd_key", "cmd_ask", "cmd_search", "cmd_documents",
     "cmd_notes", "cmd_integrations", "cmd_notifications", "cmd_rms",
     "cmd_clear", "cmd_quit"}

\* _execute_command: what a command token comes to: the credential-required
\* message, a handler, AttributeError for a name the class does not
\* define, or the unknown-command message
_execute_command(command, c) ==
    IF command \notin NoClientTokens /\ c = "none" THEN "blocked"
    ELSE IF Route(command) = "unknown" THEN "unknown"
    ELSE IF Route(command) \notin Handlers THEN "AttributeError"
    ELSE Route(command)

\* the command tokens typed: those of the chain and of the list, and others
CommandTokens ==
    {"/help", "help", "/h", "/key", "key", "/k", "/ask", "ask", "/a",
     "/search", "search", "/s", "/documents", "documents", "/d",
     "/notes", "notes", "/n", "/integrations", "integrations", "/i",
     "/automations", "automations", "/auto",
     "/notifications", "notifications", "/notifs", "/rms", "rms", "/r",
     "/clear", "clear", "/c", "/quit", "/exit", "quit", "exit", "/q",
     "/foo", "docs", "?"}

\* the loop is at the prompt and some token typed comes to this handler
Dispatched(handler) ==
    /\ AtPrompt
    /\ \E command \in CommandTokens :
          _execute_command(command, client) = handler

HandlerOf(kind) ==
    CASE kind = "documents" -> "cmd_documents"
      [] kind = "notes" -> "cmd_notes"
      [] kind = "integrations" -> "cmd_integrations"
      [] kind = "notifications" -> "cmd_notifications"

\* how a request of the client fails: the three ways the gateway raises
\* APIError (a status that is no success, a timeout, a transport error)
Failures == {"status", "timeout", "transport"}

\* the index argument of a command as typed: an integer, or no integer
IndexArgs ==
    [isnum : {TRUE}, index : (-1)..(MaxCached + 1)]
        \cup {[isnum |-> FALSE, index |-> 0]}

\* what the list request of a _list_* handler comes to
ListOutcomes(kind) ==
    [net : {"ok"}, response : ListResponses(kind, Room(kind))]
        \cup [net : Failures,
              response : {[form |-> "list", key |-> "", items |-> <<>>]}]

ListTitle(kind) ==
    CASE kind = "documents" -> "Documents"
      [] kind = "notes" -> "Notes"
      [] kind = "integrations" -> "Integrations"
      [] kind = "notifications" -> "Notifications"

ListErrorTitle(kind) ==
    CASE kind = "documents" -> "Documents Error"
      [] kind = "notes" -> "Notes Error"
      [] kind = "integrations" -> "Integrations Error"
      [] kind = "notifications" -> "Notifications Error"

NotFoundTitle(kind) ==
    CASE kind = "documents" -> "Document Not Found"
      [] kind = "notes" -> "Note Not Found"
      [] kind = "integrations" -> "Integration Not Found"
      [] kind = "notifications" -> "Notification Not Found"

\* the try block of a _list_* handler: the list request, then update_*;
\* an exception of either is caught and shown, and the cache is as it was
ListDone(kind, o) == o.net = "ok" /\ Validates(list_items(kind, o.response))

ListInto(kind, o) ==
    IF o.net = "ok" THEN Update(kind, list_items(kind, o.response))
    ELSE UNCHANGED cacheVars

ListOut(kind, o) ==
    IF ListDone(kind, o) THEN ListTitle(kind) ELSE ListErrorTitle(kind)

ListCall(o) == Sent(api, "list", NoId, o.net)

GetByIndex(kind, i) ==
    CASE kind = "documents" -> get_document_by_index(i)
      [] kind = "notes" -> get_note_by_index(i)
      [] kind = "notifications" -> get_notification_by_index(i)
      [] kind = "integrations" -> get_integration_by_index(i)
      [] kind = "automations" -> get_automation_by_index(i)

Done(cmd, kind, arg, target, out, calls, rebuilt) ==
    lastCmd' = [cmd |-> cmd, kind |-> kind, isnum |-> arg.isnum,
                index |-> arg.index, target |-> target, out |-> out,
                calls |-> calls, rebuilt |-> rebuilt,
                token |-> "", key |-> NoneKey, content |-> NoneKey,
                body |-> NoBody]

NoArg == [isnum |-> FALSE, index |-> 0]

\* a command that lists: /d, /n, /i, /notifs
ListCmd(cmd, kind) ==
    /\ Dispatched(HandlerOf(kind))
    /\ \E o \in ListOutcomes(kind) :
          /\ ListInto(kind, o)
          /\ Done(cmd, kind, NoArg, NoId, <<ListOut(kind, o)>>,
                  <<ListCall(o)>>, ListDone(kind, o))
    /\ UNCHANGED <<client, otherVarsOfSession>>

_list_documents == ListCmd("_list_documents", "documents")
_list_notes == ListCmd("_list_notes", "notes")
_list_integrations == ListCmd("_list_integrations", "integrations")
_list_notifications == ListCmd("_list_notifications", "notifications")

\* the request of a mutation, and after its success the refresh of the list
MutateThenList(cmd, kind, arg, id, op, okTitle, errTitle) ==
    \E m \in {"ok"} \cup Failures :
        IF m # "ok"
        THEN /\ Done(cmd, kind, arg, id, <<errTitle>>,
                     <<Sent(api, op, id, m)>>, FALSE)
             /\ UNCHANGED cacheVars
        ELSE \E o \in ListOutcomes(kind) :
                /\ ListInto(kind, o)
                /\ Done(cmd, kind, arg, id, <<okTitle, ListOut(kind, o)>>,
                        <<Sent(api, op, id, m), ListCall(o)>>,
                        ListDone(kind, o))

\* a command on the record of an index: the integer of the argument, the
\* record of the index, the confirmation if the handler asks for one, the
\* request, the refresh
ByIndexCmd(cmd, kind, asks, op, okTitle, errTitle) ==
    /\ Dispatched(HandlerOf(kind))
    /\ \E arg \in IndexArgs :
          IF ~arg.isnum
          THEN /\ Done(cmd, kind, arg, NoId, <<"Invalid Input">>, <<>>, FALSE)
               /\ UNCHANGED cacheVars
          ELSE LET record == GetByIndex(kind, arg.index)
               IN  IF record = NoRecord
                   THEN /\ Done(cmd, kind, arg, NoId, <<NotFoundTitle(kind)>>,
                                <<>>, FALSE)
                        /\ UNCHANGED cacheVars
                   ELSE \E confirmed \in (IF asks THEN BOOLEAN ELSE {TRUE}) :
                           IF ~confirmed
                           THEN /\ Done(cmd, kind, arg, record.id,
                                        <<"cancelled">>, <<>>, FALSE)
                                /\ UNCHANGED cacheVars
                           ELSE MutateThenList(cmd, kind, arg, record.id, op,
                                               okTitle, errTitle)
    /\ UNCHANGED <<client, otherVarsOfSession>>

_delete_document ==
    ByIndexCmd("_delete_document", "documents", TRUE, "delete_document",
               "Deleted", "Delete Error")
_delete_note ==
    ByIndexCmd("_delete_note", "notes", TRUE, "delete_note",
               "Deleted", "Delete Error")
\* what is typed after /n edit <i>: the arguments joined by a space
NoteContents ==
    {<<"new">>, <<"'", "new", " ", "text", "\"">>, <<"\"", "\"">>}

RECURSIVE lstrip_quotes(_)
lstrip_quotes(s) ==
    IF s # <<>> /\ Head(s) \in {"\"", "'"} THEN lstrip_quotes(Tail(s)) ELSE s

RECURSIVE rstrip_quotes(_)
rstrip_quotes(s) ==
    IF s # <<>> /\ s[Len(s)] \in {"\"", "'"}
    THEN rstrip_quotes(SubSeq(s, 1, Len(s) - 1)) ELSE s

\* new_content.strip("\"'")
strip_quotes(s) == rstrip_quotes(lstrip_quotes(s))

\* SelfLayerAPIClient.update_note: the body of the PUT has the title and the
\* content that are truthy
update_note(title, content) ==
    [title |-> IF Truthy(title) THEN title ELSE NoField,
     content |-> IF Truthy(content) THEN content ELSE NoField]

\* what _edit_note did: the content typed and the body of its request are
\* kept with it
NoteEdited(arg, target, out, calls, rebuilt, new_content, body) ==
    lastCmd' = [NoCmd EXCEPT !.cmd = "_edit_note", !.kind = "notes",
                             !.isnum = arg.isnum, !.index = arg.index,
                             !.target = target, !.out = out, !.calls = calls,
                             !.rebuilt = rebuilt, !.content = new_content,
                             !.body = body]

\* _edit_note: the integer of the argument, the note of the index, the
\* quotes stripped from the content, the request, the refresh
_edit_note ==
    /\ Dispatched(HandlerOf("notes"))
    /\ \E arg \in IndexArgs, new_content \in NoteContents :
          LET note == GetByIndex("notes", arg.index)
              body == update_note(NoneKey, strip_quotes(new_content))
          IN  IF ~arg.isnum
              THEN /\ NoteEdited(arg, NoId, <<"Invalid Input">>, <<>>, FALSE,
                                 new_content, NoBody)
                   /\ UNCHANGED cacheVars
              ELSE IF note = NoRecord
              THEN /\ NoteEdited(arg, NoId, <<NotFoundTitle("notes")>>, <<>>,
                                 FALSE, new_content, NoBody)
                   /\ UNCHANGED cacheVars
              ELSE \E m \in {"ok"} \cup Failures :
                      IF m # "ok"
                      THEN /\ NoteEdited(arg, note.id, <<"Update Error">>,
                                         <<Sent(api, "update_note", note.id,
                                                m)>>,
                                         FALSE, new_content, body)
                           /\ UNCHANGED cacheVars
                      ELSE \E o \in ListOutcomes("notes") :
                              /\ ListInto("notes", o)
                              /\ NoteEdited(arg, note.id,
                                            <<"Note Updated",
                                              ListOut("notes", o)>>,
                                            <<Sent(api, "update_note",
                                                   note.id, m),
                                              ListCall(o)>>,
                                            ListDone("notes", o),
                                            new_content, body)
    /\ UNCHANGED <<client, otherVarsOfSession>>
_disconnect_integration ==
    ByIndexCmd("_disconnect_integration", "integrations", TRUE,
               "disconnect_integration", "Disconnected", "Disconnect Error")
_mark_notification_read ==
    ByIndexCmd("_mark_notification_read", "notifications", FALSE,
               "mark_notification_read", "Updated", "Update Error")

\* /d 1 and /n 1: the argument is all digits; no request is made
ViewCmd(cmd, kind, cardTitle) ==
    /\ Dispatched(HandlerOf(kind))
    /\ \E i \in 0..(MaxCached + 1) :
          LET record == GetByIndex(kind, i)
              arg == [isnum |-> TRUE, index |-> i]
          IN  IF record = NoRecord
              THEN Done(cmd, kind, arg, NoId, <<NotFoundTitle(kind)>>, <<>>,
                        FALSE)
              ELSE Done(cmd, kind, arg, record.id, <<cardTitle>>, <<>>, FALSE)
    /\ UNCHANGED <<cacheVars, client, otherVarsOfSession>>

_view_document == ViewCmd("_view_document", "documents", "Document")
_view_note == ViewCmd("_view_note", "notes", "Note")

\* a mutation that names no index: the request and the refresh
PlainCmd(cmd, kind, op, okTitles, errTitle) ==
    \E okTitle \in okTitles :
        MutateThenList(cmd, kind, NoArg, NoId, op, okTitle, errTitle)

_upload_document ==
    /\ Dispatched("cmd_documents")
    /\ \E path \in {"missing", "directory", "file"} :
          IF path # "file"
          THEN /\ Done("_upload_document", "documents", NoArg, NoId,
                       <<"File Error">>, <<>>, FALSE)
               /\ UNCHANGED cacheVars
          ELSE PlainCmd("_upload_document", "documents", "upload_document",
                        {"Upload Complete"}, "Upload Error")
    /\ UNCHANGED <<client, otherVarsOfSession>>

_create_note ==
    /\ Dispatched("cmd_notes")
    /\ \E empty \in BOOLEAN :
          IF empty
          THEN /\ Done("_create_note", "notes", NoArg, NoId,
                       <<"Invalid Input">>, <<>>, FALSE)
               /\ UNCHANGED cacheVars
          ELSE PlainCmd("_create_note", "notes", "create_note",
                        {"Note Created"}, "Create Error")
    /\ UNCHANGED <<client, otherVarsOfSession>>

_connect_integration ==
    /\ Dispatched("cmd_integrations")
    /\ PlainCmd("_connect_integration", "integrations", "connect_integration",
                {"Authorization Required", "Connected"}, "Connection Error")
    /\ UNCHANGED <<client, otherVarsOfSession>>

_mark_all_notifications_read ==
    /\ Dispatched("cmd_notifications")
    /\ PlainCmd("_mark_all_notifications_read", "notifications",
                "mark_all_notifications_read", {"All Updated"}, "Update Error")
    /\ UNCHANGED <<client, otherVarsOfSession>>

\* _execute_command without a client: a command that needs one is refused
\* what a command that is no list command did: the token typed is kept
Said(command, cmd, key, out, calls) ==
    lastCmd' = [NoCmd EXCEPT !.token = command, !.cmd = cmd, !.key = key,
                             !.out = out, !.calls = calls]

\* the tokens typed that _execute_command takes to this
TokensTo(what) ==
    {command \in CommandTokens : _execute_command(command, client) = what}

\* _execute_command without a client: a command that needs one is refused
blocked ==
    /\ AtPrompt
    /\ \E command \in TokensTo("blocked") :
          Said(command, "blocked", NoneKey, <<"API Error">>, <<>>)
    /\ UNCHANGED <<cacheVars, client, otherVarsOfSession>>

\* _execute_command: the else branch
unknown_command ==
    /\ AtPrompt
    /\ \E command \in TokensTo("unknown") :
          Said(command, "unknown", NoneKey, <<"Invalid Command">>, <<>>)
    /\ UNCHANGED <<cacheVars, client, otherVarsOfSession>>

\* _execute_command names a method the class does not define: the
\* AttributeError is caught by the loop of run
unexpected_error ==
    /\ AtPrompt
    /\ \E command \in TokensTo("AttributeError") :
          Said(command, "unexpected error", NoneKey, <<"Error">>, <<>>)
    /\ UNCHANGED <<cacheVars, client, otherVarsOfSession>>

\* cmd_documents, cmd_notes, cmd_integrations, cmd_notifications: arguments
\* that are none of the subcommands
usage_error ==
    /\ AtPrompt
    /\ \E kind \in {"documents", "notes", "integrations", "notifications"} :
          \E command \in TokensTo(HandlerOf(kind)) :
              Said(command, HandlerOf(kind), NoneKey, <<"Invalid Arguments">>,
                   <<>>)
    /\ UNCHANGED <<cacheVars, client, otherVarsOfSession>>

cmd_help ==
    /\ AtPrompt
    /\ \E command \in TokensTo("cmd_help") :
          Said(command, "cmd_help", NoneKey, <<"Help & Documentation">>, <<>>)
    /\ UNCHANGED <<cacheVars, client, otherVarsOfSession>>

cmd_clear ==
    /\ AtPrompt
    /\ \E command \in TokensTo("cmd_clear") :
          Said(command, "cmd_clear", NoneKey, <<"Welcome">>, <<>>)
    /\ UNCHANGED <<cacheVars, client, otherVarsOfSession>>

\* await self.client.close()
closed(c) == IF c = "open" THEN "closed" ELSE c

\* cmd_quit without the assignment of self.running
cmd_quit_still_running ==
    /\ AtPrompt
    /\ \E command \in TokensTo("cmd_quit") :
          Said(command, "cmd_quit", NoneKey, <<"Thanks">>, <<>>)
    /\ client' = closed(client)
    /\ UNCHANGED <<cacheVars, gwVars, lastFetch, api, env, cfgVars, loopVars,
                   recVars, running,
                   user_profile>>

cmd_quit ==
    /\ AtPrompt
    /\ \E command \in TokensTo("cmd_quit") :
          Said(command, "cmd_quit", NoneKey, <<"Thanks">>, <<>>)
    /\ client' = closed(client)
    /\ running' = FALSE
    /\ UNCHANGED <<cacheVars, gwVars, lastFetch, api, env, cfgVars, loopVars,
                   recVars,
                   user_profile>>

\* a command of one request whose answer is shown: cmd_search, cmd_rms
QueryCmd(cmd, op, usageTitle, okTitle, errTitle) ==
    /\ AtPrompt
    /\ \E command \in TokensTo(cmd) :
          \/ Said(command, cmd, NoneKey, <<usageTitle>>, <<>>)
          \/ \E m \in {"ok", "invalid"} \cup Failures :
                Said(command, cmd, NoneKey,
                     <<IF m = "ok" THEN okTitle ELSE errTitle>>,
                     <<Sent(api, op, NoId, IF m = "invalid" THEN "ok" ELSE m)>>)
    /\ UNCHANGED <<cacheVars, client, otherVarsOfSession>>

cmd_search ==
    QueryCmd("cmd_search", "search", "Missing Query", "Search Results",
             "Search Error")

cmd_rms ==
    QueryCmd("cmd_rms", "get_persona_briefing", "RMS Usage",
             "Persona Briefing", "RMS Error")

\* the mutant of ask_fallback: the failure of the stream is shown and no
\* second request is made
ask_no_fallback(a, m) ==
    {[out |-> <<"AI Error">>, calls |-> <<Sent(a, "ask_stream", NoId, m)>>]}

\* cmd_ask, the except branch: the stream has failed, the question is
\* asked again without streaming, and only what becomes of that is shown
ask_fallback(a, m) ==
    {[out |-> <<IF m2 = "ok" THEN "AI Response" ELSE "AI Error">>,
      calls |-> <<Sent(a, "ask_stream", NoId, m), Sent(a, "ask", NoId, m2)>>] :
        m2 \in {"ok"} \cup Failures}

cmd_ask ==
    /\ AtPrompt
    /\ \E command \in TokensTo("cmd_ask") :
          \/ Said(command, "cmd_ask", NoneKey, <<"Missing Query">>, <<>>)
          \/ Said(command, "cmd_ask", NoneKey, <<"AI Response">>,
                  <<Sent(api, "ask_stream", NoId, "ok")>>)
          \* the stream fails, or the body of the async for raises on a
          \* chunk of a stream that has not failed
          \/ \E m \in Failures \cup {"ok"} : \E r \in ask_fallback(api, m) :
                Said(command, "cmd_ask", NoneKey, r.out, r.calls)
    /\ UNCHANGED <<cacheVars, client, otherVarsOfSession>>

\* the keys typed after /key
TypedKeys == {<<"sl_test_", "2">>, <<"bad">>, <<"x", "sl_live_">>}

\* set_profile(profile_data): the profile the service gives for the key of
\* the request
ProfileOf(a) == <<"profile of">> \o a.api_key

\* cmd_key without arguments: the status of the key in effect
key_status(command) ==
    /\ Said(command, "cmd_key", NoneKey,
            <<IF Truthy(get_effective_api_key(env, config, file, now))
              THEN "API Key Status" ELSE "API Key Required">>, <<>>)
    /\ config' = get_config(config, file, now)
    /\ UNCHANGED <<cacheVars, client, api, file, user_profile>>

\* cmd_key clear
key_clear(command) ==
    \E outcome \in SaveOutcomes :
        LET r == clear(config, file, now, outcome)
        IN  /\ config' = r.config
            /\ file' = r.file
            /\ Said(command, "cmd_key", <<"clear">>,
                    <<IF r.result THEN "Key Cleared" ELSE "Clear Error">>,
                    <<>>)
            /\ IF r.result /\ client # "none"
               THEN /\ client' = "none" /\ api' = NoApi /\ clear_all_data
                    /\ user_profile' = NoProfile
               ELSE UNCHANGED <<cacheVars, client, api, user_profile>>

\* key_set with a roll-back: a key that fails its verification leaves the
\* client as it was and drops the profile
key_set_rolled_back(command, api_key) ==
    \E outcome \in SaveOutcomes :
        LET r == update(config, file, now, api_key, outcome)
            made == new_client(api_key, env, r.config, r.file, now)
        IN  /\ config' = r.config
            /\ file' = r.file
            /\ IF r.result
               THEN \E m \in {"ok"} \cup Failures :
                       /\ Said(command, "cmd_key", api_key,
                               <<IF m = "ok" THEN "Key Configured"
                                 ELSE "Verification Failed">>,
                               <<Sent(made.api, "get_profile", NoId, m)>>)
                       /\ IF m = "ok"
                          THEN /\ client' = "open" /\ api' = made.api
                               /\ user_profile' = ProfileOf(made.api)
                          ELSE /\ UNCHANGED <<client, api>>
                               /\ user_profile' = NoProfile
               ELSE /\ Said(command, "cmd_key", api_key, <<"Save Error">>,
                            <<>>)
                    /\ UNCHANGED <<client, api, user_profile>>
            /\ UNCHANGED cacheVars

\* cmd_key <key>: update_api_key, and if it says True a new client with the
\* key typed and a request of the profile to try the key
key_set(command, api_key) ==
    \E outcome \in SaveOutcomes :
        LET r == update(config, file, now, api_key, outcome)
            made == new_client(api_key, env, r.config, r.file, now)
        IN  /\ config' = r.config
            /\ file' = r.file
            /\ IF r.result
               THEN /\ client' = "open"
                    /\ api' = made.api
                    /\ \E m \in {"ok"} \cup Failures :
                          /\ Said(command, "cmd_key", api_key,
                                  <<IF m = "ok" THEN "Key Configured"
                                    ELSE "Verification Failed">>,
                                  <<Sent(made.api, "get_profile", NoId, m)>>)
                          /\ user_profile' = IF m = "ok" THEN ProfileOf(made.api)
                                             ELSE user_profile
               ELSE /\ Said(command, "cmd_key", api_key, <<"Save Error">>,
                            <<>>)
                    /\ UNCHANGED <<client, api, user_profile>>
            /\ UNCHANGED cacheVars

cmd_key ==
    /\ AtPrompt
    /\ \E command \in TokensTo("cmd_key") :
          \/ key_status(command)
          \/ key_clear(command)
          \/ \E api_key \in TypedKeys : key_set(command, api_key)
    /\ UNCHANGED <<gwVars, lastFetch, running, env, now, lastOp, loopVars,
                   recVars>>

\* run: KeyboardInterrupt or CancelledError while the loop waits at
\* Prompt.ask; the message is printed and the loop is left by break
interrupted ==
    /\ AtPrompt
    /\ lastCmd' = [NoCmd EXCEPT !.cmd = "interrupted",
                                !.out = <<"Use /quit to exit gracefully.">>]
    /\ UNCHANGED <<cacheVars, client, otherVarsOfSession>>

\* the while loop of run is over: self.running is False, or break was taken
Terminated == ~running \/ lastCmd.cmd = "interrupted"

\* run: the handler has ended and the loop asks for the next command
prompt ==
    /\ lastCmd # NoCmd /\ ~Terminated
    /\ lastCmd' = NoCmd
    /\ UNCHANGED <<cacheVars, client, otherVarsOfSession>>

\* the file of a session that has a stored key
KeyFile ==
    [state |-> "json", mode |-> "0600",
     data |-> [api_key |-> <<"sl_live_", "1">>, base_url |-> StoredBaseUrl,
               log_level |-> "INFO", created_at |-> 1, updated_at |-> 1]]

\* what a session starts with: nothing, a stored key, a stored key under an
\* environment that has a key and a base URL
Starts ==
    {[env |-> NoEnv, file |-> NoFile],
     [env |-> NoEnv, file |-> KeyFile],
     [env |-> [api_key |-> EnvKey, base_url |-> EnvUrl], file |-> KeyFile]}

\* SelfLayerCLI(): _initialize_client reads the key in effect (and with it
\* the file, if the environment has no key) and makes a client if there is
\* one
Init ==
    /\ InitGateway /\ InitCache /\ InitLoop /\ InitNoRecord
    /\ \E start \in Starts : env = start.env /\ file = start.file
    /\ now = 1 /\ lastOp = NoOp
    /\ config = IF Truthy(env.api_key) THEN NoConfig ELSE loaded(file, now)
    /\ LET made == new_client(NoneKey, env, NoConfig, file, now)
       IN  /\ client = IF made.raised THEN "none" ELSE "open"
           /\ api = made.api
           \* run, before the loop: _fetch_profile, whose failure is only
           \* logged
           /\ user_profile \in IF made.raised THEN {NoProfile}
                                ELSE {NoProfile, ProfileOf(made.api)}
    /\ running = TRUE
    /\ lastCmd = NoCmd

Next ==
    \/ _list_documents \/ _list_notes \/ _list_integrations
    \/ _list_notifications
    \/ _upload_document \/ _view_document \/ _delete_document
    \/ _create_note \/ _view_note \/ _edit_note \/ _delete_note
    \/ _connect_integration \/ _disconnect_integration
    \/ _mark_notification_read \/ _mark_all_notifications_read
    \/ blocked \/ prompt

\* a session whose profile, if it has a client, was fetched when run began
InitFetched == Init /\ (client = "open" => user_profile # NoProfile)

Spec == InitFetched /\ [][Next]_vars

\* the session of the commands that keep no list, and of the upload: what
\* is typed, where it is routed, the key and the client
NextCommands ==
    \/ cmd_help \/ cmd_key \/ cmd_ask \/ cmd_search \/ cmd_rms
    \/ cmd_clear \/ cmd_quit
    \/ _upload_document
    \/ usage_error \/ blocked \/ unknown_command \/ unexpected_error
    \/ interrupted \/ prompt

SpecCommands == Init /\ [][NextCommands]_vars

----------------------------------------------------------------------------
(* The command loop of run, step by step: a line is read at the prompt,     *)
(* its handler runs through its requests and its question to the user, and  *)
(* the loop reads the next line when the handler has returned.              *)

\* what a handler awaits, in order: "confirm" is Confirm.ask, every other
\* step is a request of the client
Steps(cmd) ==
    CASE cmd \in {"_list_documents", "_list_notes", "_list_integrations",
                  "_list_notifications"} -> <<"list">>
      [] cmd = "_upload_document" -> <<"upload_document", "list">>
      [] cmd = "_delete_document" -> <<"confirm", "delete_document", "list">>
      [] cmd = "_create_note" -> <<"create_note", "list">>
      [] cmd = "_edit_note" -> <<"update_note", "list">>
      [] cmd = "_delete_note" -> <<"confirm", "delete_note", "list">>
      [] cmd = "_connect_integration" -> <<"connect_integration", "list">>
      [] cmd = "_disconnect_integration" ->
             <<"confirm", "disconnect_integration", "list">>
      [] cmd = "_mark_notification_read" ->
             <<"mark_notification_read", "list">>
      [] cmd = "_mark_all_notifications_read" ->
             <<"mark_all_notifications_read", "list">>
      [] cmd = "cmd_key" -> <<"get_profile">>
      [] cmd = "cmd_ask" -> <<"ask_stream", "ask">>
      [] cmd = "cmd_search" -> <<"search">>
      [] cmd = "cmd_rms" -> <<"get_persona_briefing">>
      [] OTHER -> <<>>

LoopCommands ==
    {"_list_documents", "_list_notes", "_list_integrations",
     "_list_notifications", "_upload_document", "_view_document",
     "_delete_document", "_create_note", "_view_note", "_edit_note",
     "_delete_note", "_connect_integration", "_disconnect_integration",
     "_mark_notification_read", "_mark_all_notifications_read",
     "cmd_help", "cmd_key", "cmd_ask", "cmd_search", "cmd_rms", "cmd_clear",
     "cmd_quit"}

otherVarsOfLoop ==
    <<gwVars, cacheVars, lastFetch, client, lastCmd, api, env, cfgVars,
      recVars,
      user_profile>>

\* the step the handler is at, "return" when it has no step left
Awaited ==
    IF handling # "none" /\ step \in DOMAIN Steps(handling)
    THEN Steps(handling)[step] ELSE "return"

\* the streaming request of an ask whose generator was left before its end
Abandoned == inflight \cap {"ask_stream, left open"}

\* run: Prompt.ask gives a line, and _execute_command is awaited with it
read_command ==
    /\ handling = "none" /\ running
    /\ \E cmd \in LoopCommands : handling' = cmd
    /\ step' = 1
    /\ UNCHANGED <<inflight, running, otherVarsOfLoop>>

\* the handler awaits a request of the client: the request begins
send ==
    /\ Awaited \notin {"return", "confirm"}
    /\ Awaited \notin inflight
    /\ inflight' = inflight \cup {Awaited}
    /\ UNCHANGED <<handling, step, running, otherVarsOfLoop>>

\* the request ends: with its answer the handler goes on; with an error
\* the handler prints it and returns, but for the streaming request of
\* ask, after whose error the question is asked again without streaming
receive ==
    /\ Awaited \in inflight
    /\ inflight' = inflight \ {Awaited}
    /\ \E ok \in BOOLEAN :
          step' = IF Awaited = "ask_stream"
                  THEN (IF ok THEN Len(Steps(handling)) + 1 ELSE step + 1)
                  ELSE (IF ok THEN step + 1 ELSE Len(Steps(handling)) + 1)
    /\ UNCHANGED <<handling, running, otherVarsOfLoop>>

\* cmd_ask: the body of the async for raises on a chunk that has "data" or
\* "content" of another type than the body takes; the except branch runs
\* while the generator of stream is suspended at its yield, its response
\* open
chunk_raises ==
    /\ Awaited = "ask_stream" /\ "ask_stream" \in inflight
    /\ inflight' = (inflight \ {"ask_stream"}) \cup {"ask_stream, left open"}
    /\ step' = step + 1
    /\ UNCHANGED <<handling, running, otherVarsOfLoop>>

\* the generator left behind is closed by the event loop, which can run
\* only while the handler or the loop awaits
aclose ==
    /\ Abandoned # {}
    /\ \/ Awaited \in (inflight \ Abandoned) \cup {"confirm"}
       \/ handling = "none"
    /\ inflight' = inflight \ Abandoned
    /\ UNCHANGED <<handling, step, running, otherVarsOfLoop>>

\* Confirm.ask: the user says yes or no
confirm ==
    /\ Awaited = "confirm"
    /\ \E yes \in BOOLEAN :
          step' = IF yes THEN step + 1 ELSE Len(Steps(handling)) + 1
    /\ UNCHANGED <<handling, inflight, running, otherVarsOfLoop>>

\* the handler returns and the loop tests self.running
handler_returns ==
    /\ handling # "none" /\ Awaited = "return"
    /\ handling' = "none"
    /\ step' = 1
    /\ running' = (handling # "cmd_quit")
    /\ UNCHANGED <<inflight, otherVarsOfLoop>>

NextLoop ==
    \/ read_command \/ send \/ receive \/ chunk_raises \/ aclose
    \/ confirm \/ handler_returns

\* a session that has started with a key
InitWithClient == Init /\ client = "open"

SpecLoop == InitWithClient /\ [][NextLoop]_vars

----------------------------------------------------------------------------
(* One Document record and its displays: models.py Document and the        *)
(* renderers of renderers.py that show it. file_size is the number         *)
(* n / 1024^d: an int as the service gives it (d = 0), or what the         *)
(* divisions of get_size_display have made of it.                          *)

\* file_size as the service gives it: None, or a number of bytes
Sizes ==
    {NoSize} \cup [n : {0, 1, 500, 1023, 1024, 1536, 2048, 1048576, 5242880,
                       99999999},
                   d : {0}]

\* 1024.0 ** d
Pow1024(d) == IF d = 0 THEN 1 ELSE IF d = 1 THEN 1024 ELSE 1048576

\* f"{self.file_size:.1f}": the value in tenths, rounded (no value of the
\* model is halfway between two tenths)
Tenths(fs) == (20 * fs.n + Pow1024(fs.d)) \div (2 * Pow1024(fs.d))

\* self.file_size /= 1024.0
divided(fs) == [fs EXCEPT !.d = fs.d + 1]

RECURSIVE size_in(_, _, _)
\* get_size_display, the for loop: shown is the value the text is made of,
\* fs the field
size_in(shown, fs, units) ==
    IF units = <<>>
    THEN [text |-> [tenths |-> Tenths(shown), unit |-> "TB"], file_size |-> fs]
    ELSE IF shown.n < 1024 * Pow1024(shown.d)
    THEN [text |-> [tenths |-> Tenths(shown), unit |-> Head(units)],
          file_size |-> fs]
    ELSE size_in([shown EXCEPT !.d = shown.d + 1], divided(fs), Tail(units))

\* Document.get_size_display: the text, and file_size as the call leaves it
size_display(fs) ==
    IF fs = NoSize \/ fs.n = 0
    THEN [text |-> [tenths |-> 0, unit |-> "Unknown size"], file_size |-> fs]
    ELSE size_in(fs, fs, <<"B", "KB", "MB", "GB">>)

otherVarsOfRecord ==
    <<gwVars, cacheVars, lastFetch, client, lastCmd, api, running, env,
      cfgVars, loopVars, user_profile>>

\* one display of the record through the function named
Display(by) ==
    /\ Len(size_texts) < MaxDisplays
    /\ LET r == size_display(file_size)
       IN  /\ file_size' = r.file_size
           /\ size_texts' = Append(size_texts,
                                   [by |-> by, text |-> r.text,
                                    before |-> file_size,
                                    after |-> r.file_size])
    /\ UNCHANGED otherVarsOfRecord

get_size_display == Display("get_size_display")
to_display_dict == Display("to_display_dict")
render_documents_list == Display("render_documents_list")
render_document_card == Display("render_document_card")

\* Document(**doc): a record as the service gave it, not displayed yet
InitRecord ==
    /\ InitGateway /\ InitCache /\ InitSessionIdle
    /\ config = NoConfig /\ file = NoFile /\ now = 1 /\ lastOp = NoOp
    /\ file_size \in Sizes /\ size_texts = <<>>

NextRecord ==
    \/ get_size_display \/ to_display_dict
    \/ render_documents_list \/ render_document_card

SpecRecord == InitRecord /\ [][NextRecord]_vars

----------------------------------------------------------------------------
(* Claims about the cache (SpecState) *)

\* C1: after a list fetch that went through, of any of the five kinds, with
\* N items, the kind's index has exactly the keys 1..N and key i holds the
\* identifier of the i-th item of the response (N = 0 and repeated
\* identifiers included).
C1_IndexIsOneToNInResponseOrder ==
    lastFetch.ok =>
        LET index == IndexOf(lastFetch.kind)
            N == Len(lastFetch.items)
        IN  /\ DOMAIN index = 1..N
            /\ \A i \in 1..N : index[i] = lastFetch.items[i].id

\* a fetch of two items with the same identifier has been applied
C1_Witness ==
    /\ lastFetch.ok
    /\ Len(lastFetch.items) = 2
    /\ lastFetch.items[1].id = lastFetch.items[2].id
    /\ Len(IndexOf(lastFetch.kind)) = 2

\* C23: in every state, for each of the five kinds, the keys of the index
\* are exactly 1..(size of the cached list) and key i holds the identifier
\* of the i-th cached record; fetches that went through, fetches that
\* failed and the clearing of the cache all keep it.
C23_IndexAgreesWithTheList ==
    \A kind \in Kinds :
        /\ DOMAIN IndexOf(kind) = 1..Len(ListOf(kind))
        /\ \A i \in 1..Len(ListOf(kind)) :
              IndexOf(kind)[i] = ListOf(kind)[i].id

\* a fetch has failed on a kind whose list holds records
C23_Witness ==
    /\ lastFetch.kind # "none" /\ ~lastFetch.ok
    /\ Len(ListOf(lastFetch.kind)) > 0

----------------------------------------------------------------------------
(* Claims about the session (Spec) *)

ByIndexCmds ==
    {"_delete_document", "_delete_note", "_edit_note", "_view_document",
     "_view_note", "_disconnect_integration", "_mark_notification_read"}

\* C2: a command on the record of a position i (delete, edit, view,
\* disconnect, mark read) is on the record whose identifier the list held at
\* position i when 1 <= i <= the size of the cached list, and it ends in
\* "not found" without a request when i is above that size.
C2_ByIndexResolvesWithinTheListSize ==
    [][(lastCmd'.cmd \in ByIndexCmds /\ lastCmd'.isnum) =>
          LET records == ListOf(lastCmd'.kind)
              i == lastCmd'.index
          IN  /\ (1 <= i /\ i <= Len(records)) =>
                    /\ lastCmd'.target = records[i].id
                    /\ lastCmd'.out # <<NotFoundTitle(lastCmd'.kind)>>
              /\ i > Len(records) =>
                    /\ lastCmd'.out = <<NotFoundTitle(lastCmd'.kind)>>
                    /\ lastCmd'.calls = <<>>]_vars

\* C3: when a mutation has been carried out by the service, the index of
\* before the mutation is no longer in effect at the next prompt: the command
\* has built the index anew.
C3_MutationDiscardsTheIndex ==
    (\E k \in 1..Len(lastCmd.calls) :
        lastCmd.calls[k].op # "list" /\ lastCmd.calls[k].ok)
        => lastCmd.rebuilt

\* C30: whenever the edit of a note reports its success, the body of the
\* update request has the new content the user gave, the quotes stripped,
\* whatever the content is, the empty one included.
C30_UpdatedNoteWasSentItsNewContent ==
    (lastCmd.cmd = "_edit_note" /\ lastCmd.out # <<>>
        /\ Head(lastCmd.out) = "Note Updated") =>
        lastCmd.body.content = strip_quotes(lastCmd.content)

----------------------------------------------------------------------------
(* Claims about the commands, the key and the client (SpecCommands) *)

\* the requests of the command that has just run
Calls == {lastCmd.calls[i] : i \in DOMAIN lastCmd.calls}

\* C11: every request the client sends, the upload of a file included,
\* carries Authorization: Bearer <key> with the key the client was made
\* with, and that key is not empty; no client is ever there with an empty
\* key.
C11_EveryRequestCarriesTheKey ==
    /\ client # "none" => Truthy(api.api_key)
    /\ \A call \in Calls :
          /\ Truthy(api.api_key)
          /\ call.headers.Authorization = <<"Bearer ">> \o api.api_key

C11_Witness ==
    \E call \in Calls :
        /\ call.op = "upload_document"
        /\ call.headers.Authorization = <<"Bearer ", "sl_test_", "2">>

\* a key with none of the two prefixes, or an empty one
Rejected(api_key) ==
    \/ api_key = <<>>
    \/ ~(startswith(api_key, "sl_live_") \/ startswith(api_key, "sl_test_"))

\* the /key command that has just set the key typed
KeyTyped(cmd) ==
    cmd.cmd = "cmd_key" /\ cmd.key \notin {NoneKey, <<"clear">>}

\* C12: /key with a key that is empty or has none of the prefixes sl_live_
\* and sl_test_ leaves the config file, the key held in memory and the
\* client of the session as they were.
C12_RejectedKeyChangesNothing ==
    [][(KeyTyped(lastCmd') /\ Rejected(lastCmd'.key)) =>
           /\ file' = file
           /\ get_api_key(config', file', now') = get_api_key(config, file, now)
           /\ config # NoConfig => config' = config
           /\ client' = client /\ api' = api
           /\ lastCmd'.calls = <<>>]_vars

C12_Witness ==
    /\ KeyTyped(lastCmd) /\ lastCmd.key = <<"x", "sl_live_">>
    /\ lastCmd.out = <<"Save Error">>
    /\ client = "open" /\ file = KeyFile

\* the tokens of the if/elif chain that name one of these commands
AliasesOf(commands) == {command \in CommandTokens : Route(command) \in commands}

\* C13: without a client, every token and alias of help, key, clear and
\* quit reaches its handler, and every other token gets the
\* credential-required message, no handler and no request.
C13_WithoutAClientOnlyTheFourCommandsRun ==
    [][(client = "none" /\ lastCmd'.token # "") =>
           IF lastCmd'.token
                  \in AliasesOf({"cmd_help", "cmd_key", "cmd_clear", "cmd_quit"})
           THEN lastCmd'.cmd = Route(lastCmd'.token)
           ELSE /\ lastCmd'.cmd = "blocked"
                /\ lastCmd'.out = <<"API Error">>
                /\ lastCmd'.calls = <<>>]_vars

\* C14: a token that is not in the if/elif chain gets the "unknown command"
\* message and no handler, with a client or without.
C14_UnknownTokenGetsUnknownCommand ==
    (lastCmd.token # "" /\ Route(lastCmd.token) = "unknown") =>
        /\ lastCmd.cmd = "unknown"
        /\ lastCmd.out = <<"Invalid Command">>

\* C15: with a client, a token of the if/elif chain runs a handler that
\* the class has, and does not end in the except Exception of the loop.
C15_RecognisedTokenRunsItsHandler ==
    [][(client # "none" /\ lastCmd'.token # ""
            /\ Route(lastCmd'.token) # "unknown") =>
           /\ lastCmd'.cmd = Route(lastCmd'.token)
           /\ lastCmd'.cmd \in Handlers]_vars

\* C16: while the environment has a non-empty API key, the key the session
\* sends with its requests is the one of the environment, not the stored
\* one.
C16_EnvironmentKeyIsTheOneUsed ==
    Truthy(env.api_key) =>
        /\ client = "open" => api.api_key = strip(env.api_key)
        /\ \A call \in Calls :
              call.headers.Authorization = <<"Bearer ">> \o strip(env.api_key)

\* C17: every request of the session, of the client of the startup or of
\* the client that /key makes, goes to the base URL of the environment if
\* the environment has one, and to the stored base URL if it has none.
C17_RequestsGoToTheBaseUrlInEffect ==
    \A call \in Calls :
        <<call.base>> = get_effective_base_url(env, config, file, now)

\* the titles of the panels that the handlers print for a request that
\* has failed
ErrorTitles ==
    {ListErrorTitle(kind) :
        kind \in {"documents", "notes", "integrations", "notifications"}}
    \cup {"Upload Error", "Delete Error", "Create Error", "Update Error",
          "Connection Error", "Disconnect Error", "Search Error", "RMS Error",
          "AI Error", "Verification Failed"}

ErrorShown == \E j \in DOMAIN lastCmd.out : lastCmd.out[j] \in ErrorTitles

\* C19 as stated: whenever a request of a command fails, by its status, by
\* a timeout or in transport, a message about it is shown, the session
\* stays running and the next command is accepted.
C19_EveryFailedCallIsShown ==
    \A call \in Calls :
        ~call.ok => ErrorShown /\ running /\ ENABLED prompt

\* C19 amended: the same, except that the failure of the streaming request
\* of ask is not shown: it is followed by one request without streaming,
\* and a message is shown only if that one fails too.
C19_FailedCallsAreShownButForTheStream ==
    \A i \in DOMAIN lastCmd.calls :
        LET call == lastCmd.calls[i]
        IN  ~call.ok =>
              /\ running /\ ENABLED prompt
              /\ IF call.op = "ask_stream"
                 THEN /\ i + 1 \in DOMAIN lastCmd.calls
                      /\ lastCmd.calls[i + 1].op = "ask"
                      /\ lastCmd.out
                             = <<IF lastCmd.calls[i + 1].ok THEN "AI Response"
                                 ELSE "AI Error">>
                 ELSE ErrorShown

C19_Witness ==
    /\ Len(lastCmd.calls) = 2
    /\ lastCmd.calls[1].op = "ask_stream" /\ lastCmd.calls[1].how = "timeout"
    /\ lastCmd.calls[2].op = "ask" /\ lastCmd.calls[2].ok
    /\ lastCmd.out = <<"AI Response">>
    /\ running

\* the /key clear that has just gone through
KeyCleared ==
    /\ lastCmd.cmd = "cmd_key" /\ lastCmd.key = <<"clear">>
    /\ lastCmd.out = <<"Key Cleared">>

\* C22: after /key clear has gone through in a session whose environment
\* has an API key, no command is refused for want of a credential.
C22_EnvironmentKeyOutlivesTheClear ==
    (KeyCleared /\ Truthy(env.api_key)) =>
        \A command \in CommandTokens :
            _execute_command(command, client) # "blocked"

\* the /key <key> that has just installed a client with the key typed
KeyInstalled ==
    /\ lastCmd.cmd = "cmd_key"
    /\ lastCmd.out \in {<<"Key Configured">>, <<"Verification Failed">>}

\* C24: when /key <key> has replaced the key, the five cached lists and
\* their indexes are empty, so that no record fetched under the key before
\* can be reached by its position.
C24_ReplacedKeyStartsFromAnEmptyCache ==
    KeyInstalled =>
        \A kind \in Kinds : ListOf(kind) = <<>> /\ IndexOf(kind) = <<>>

C26_LoopEndsWithTheClientClosed ==
    Terminated => client # "open"

\* C28: /key <key> stores the key and installs the client of the key
\* before it tries the key: when the verification fails, the key typed is
\* in the file and in memory, the client is the new one, the request of
\* the profile was sent with the key typed, and the profile cached before
\* is left as it was.
C28_FailedVerificationRollsNothingBack ==
    [][(lastCmd'.cmd = "cmd_key" /\ lastCmd'.out = <<"Verification Failed">>)
          => /\ file'.state = "json"
             /\ file'.data.api_key = strip(lastCmd'.key)
             /\ config'.api_key = strip(lastCmd'.key)
             /\ client' = "open"
             /\ api'.api_key = lastCmd'.key
             /\ Len(lastCmd'.calls) = 1
             /\ lastCmd'.calls[1].op = "get_profile"
             /\ lastCmd'.calls[1].headers.Authorization
                    = <<"Bearer ">> \o lastCmd'.key
             /\ user_profile' = user_profile]_vars

\* a key typed has failed its verification while the profile of the key
\* before it is cached
C28_Witness ==
    /\ lastCmd.cmd = "cmd_key" /\ lastCmd.out = <<"Verification Failed">>
    /\ user_profile # NoProfile
    /\ user_profile # ProfileOf(api)
    /\ file.data.api_key = lastCmd.key

----------------------------------------------------------------------------
(* Claims about the key in memory (SpecConfig) *)

\* C27: update_api_key and clear_api_key are all or nothing: when one of
\* them has returned False, for a key that is refused or for a file that
\* could not be written, the key of the config in memory is the key that
\* get_api_key gave before the call.
C27_FailedKeyChangeLeavesTheKeyInMemory ==
    (lastOp.op \in {"update_api_key", "clear_api_key"} /\ ~lastOp.result) =>
        config.api_key
            = get_api_key(lastOp.before, lastOp.fileBefore, lastOp.at)

----------------------------------------------------------------------------
(* Claims about the command loop (SpecLoop) *)

\* C18: no line is read while a handler has not returned, its requests and
\* its question to the user included, and so no two requests are ever in
\* flight at once.
C18_OneCommandAndOneRequestAtATime ==
    /\ Cardinality(inflight) <= 1
    /\ handling = "none" => inflight = {}

\* C29: while one /ask is handled, the question is sent without streaming
\* only after its streaming request is over, so that the two requests of
\* the ask are never in flight together.
C29_TheTwoRequestsOfAnAskNeverOverlap ==
    (handling = "cmd_ask" /\ "ask" \in inflight) => inflight = {"ask"}

----------------------------------------------------------------------------
(* Claims about the records (SpecRecord) *)

\* C21: displaying a Document any number of times, through
\* get_size_display, to_display_dict or a renderer, leaves file_size as it
\* was and gives the same size text every time.
C21_DisplayLeavesTheRecordAndRepeatsTheText ==
    \A i \in DOMAIN size_texts :
        /\ size_texts[i].after = size_texts[i].before
        /\ size_texts[i].text = size_texts[1].text

----------------------------------------------------------------------------
(* Claims about the config store (SpecConfig) *)

SavingOps == {"save_config", "update_api_key", "clear_api_key", "reset_config"}

\* C20: after every save_config that returned True (called as such or by
\* update_api_key, clear_api_key or reset_config) the file is the JSON text
\* of the whole configuration held in memory, its five fields, updated_at
\* being the clock's reading at this save, and its mode is 0600.
C20_SavedFileIsTheWholeConfig ==
    (lastOp.op \in SavingOps /\ lastOp.result) =>
        /\ file.state = "json"
        /\ file.data = config
        /\ DOMAIN file.data =
              {"api_key", "base_url", "log_level", "created_at", "updated_at"}
        /\ config.updated_at = lastOp.at
        /\ file.mode = "0600"

\* a key has been saved, at the clock's second reading, over a file that
\* others could read
C20_Witness ==
    /\ lastOp.op = "update_api_key" /\ lastOp.result
    /\ lastOp.fileBefore.state = "json" /\ lastOp.fileBefore.mode = "0644"
    /\ lastOp.fileBefore.data.updated_at = 1
    /\ lastOp.at = 2
    /\ file.data.api_key = <<"sl_test_", "2">>

----------------------------------------------------------------------------
(* Claims about the gateway (SpecGateway) *)

\* a line "data: <json>"
WellFormedData(line) ==
    Len(line) = 2 /\ line[1] = "data: " /\ line[2] \in JsonTokens

\* the lines ls begin with k well-formed data lines and then "data: [DONE]"
DataThenDone(ls, k) ==
    /\ k + 1 <= Len(ls)
    /\ ls[k + 1] = <<"data: ", "[DONE]">>
    /\ \A i \in 1..k : WellFormedData(ls[i])

\* C4: when the body is k well-formed "data: <json>" lines, then
\* "data: [DONE]", then anything, the reader yields exactly the k parsed
\* objects, one per line and in line order, and stops at the sentinel.
C4_YieldsEachDataLineUntilDone ==
    \A k \in 0..Len(lines) :
        (gwMethod = "STREAM" /\ DataThenDone(lines, k)) =>
            /\ pos <= k + 2
            /\ yielded = [i \in 1..(IF pos - 1 < k THEN pos - 1 ELSE k) |->
                             Decode(lines[i][2])]
            /\ (pos = k + 2) <=> (gwPc = "returned")
            /\ gwPc = "raised" => gwFail # "none"

\* one data line, the sentinel, then another data line: the reader returned
\* with one object
C4_Witness ==
    /\ gwMethod = "STREAM" /\ gwPc = "returned"
    /\ Len(lines) = 3
    /\ DataThenDone(lines, 1)
    /\ WellFormedData(lines[3])
    /\ Len(yielded) = 1

\* the text of a line after its optional "data: " prefix
Payload(line) == IF startswith(line, "data: ") THEN Tail(line) ELSE line

\* a non-blank line whose payload is the sentinel token
IsSentinel(line) == strip(line) # <<>> /\ strip(Payload(line)) = <<"[DONE]">>

\* C5: the "data: " prefix is optional: once a non-blank line whose payload,
\* with or without the prefix, is [DONE] has been read, the reader has
\* stopped, so that no later line is read or yielded.
C5_StopsAtSentinelWithOrWithoutPrefix ==
    gwMethod = "STREAM" =>
        \A j \in 1..(pos - 1) :
            IsSentinel(lines[j]) => (gwPc # "streaming" /\ pos = j + 1)

\* a line that is not blank and yields an object
Parseable(line) == strip(line) # <<>> /\ json_loads(Payload(line)).ok

\* the objects of the parseable lines of ls, in order
RECURSIVE ObjectsOf(_)
ObjectsOf(ls) ==
    IF ls = <<>> THEN <<>>
    ELSE (IF Parseable(Head(ls)) THEN <<Decode(strip(Payload(Head(ls)))[1])>>
          ELSE <<>>) \o ObjectsOf(Tail(ls))

\* C6: a malformed or blank line is never fatal: it yields nothing, no line
\* makes the reader raise, and the reader goes on, so that what has been
\* yielded is always the objects of the parseable lines read so far; only
\* the sentinel or the end of the body ends the reading.
C6_MalformedLinesAreSkipped ==
    (gwMethod = "STREAM" /\ gwPc # "idle") =>
        /\ yielded = ObjectsOf(SubSeq(lines, 1, pos - 1))
        /\ (gwPc = "raised" /\ is_success(gwResp)) => gwFail # "none"
        /\ (gwPc = "returned" /\ pos <= Len(lines)) =>
               /\ startswith(lines[pos - 1], "data: ")
               /\ strip(Tail(lines[pos - 1])) = <<"[DONE]">>

\* a malformed line, a blank line, then a parseable line that was yielded
C6_Witness ==
    /\ gwMethod = "STREAM" /\ gwPc = "returned"
    /\ Len(lines) = 3
    /\ strip(lines[1]) # <<>> /\ ~Parseable(lines[1]) /\ ~IsSentinel(lines[1])
    /\ strip(lines[2]) = <<>>
    /\ Parseable(lines[3])
    /\ Len(yielded) = 1

\* a call has ended on a response with a non-success status
EndedOnErrorStatus ==
    /\ gwPc \in {"returned", "raised"}
    /\ gwFail = "none"
    /\ ~is_success(gwResp)

\* C7: every gateway call, stream included, that gets a non-2xx response
\* fails with APIError, the error carries the status code, and nothing of
\* the response is returned or yielded.
C7_ErrorStatusRaisesAPIErrorWithTheCode ==
    EndedOnErrorStatus =>
        /\ gwPc = "raised"
        /\ gwError.kind = "APIError"
        /\ ToString(gwResp.status) \in Range(gwError.msg)
        /\ gwResult = NoValue
        /\ yielded = <<>>

\* the response body is a JSON object with a "detail"
HasDetail(resp) ==
    /\ json_loads(resp.body).ok
    /\ json_loads(resp.body).value.type = "dict"
    /\ json_loads(resp.body).value.detail # Absent

\* C8 as claimed: on a non-success status the error raised carries the
\* server's message (the detail of the response) besides the status code.
C8_ErrorCarriesTheServerMessage ==
    (EndedOnErrorStatus /\ gwError.kind = "APIError" /\ HasDetail(gwResp)) =>
        /\ ToString(gwResp.status) \in Range(gwError.msg)
        /\ json_loads(gwResp.body).value.detail \in Range(gwError.msg)

\* C8 as amended: on a non-success status get / post / put / patch / delete
\* raise APIError whose message is the status code alone; the server's
\* detail is in the panel the gateway prints before it raises, and not in
\* the error.
C8_ErrorCarriesTheCodeAndThePanelTheMessage ==
    (EndedOnErrorStatus /\ gwMethod \in Methods) =>
        /\ gwError = [kind |-> "APIError",
                      msg |-> <<"API request failed: ",
                                ToString(gwResp.status)>>]
        /\ gwPrinted.title = PanelTitle(gwResp.status)
        /\ HasDetail(gwResp) =>
               /\ Decode(strip(gwResp.body)[1]).detail \in Range(gwPrinted.msg)
               /\ Decode(strip(gwResp.body)[1]).detail \notin Range(gwError.msg)

\* a get answered 404 with a detail has raised
C8_Witness ==
    /\ gwMethod = "GET" /\ gwPc = "raised"
    /\ gwResp.status = 404
    /\ HasDetail(gwResp)
    /\ gwError.kind = "APIError"

\* C9: get, post, put and patch, and delete for a success status other than
\* 204, return the JSON body of a success response as it is; delete
\* returns None for 204.
C9_SuccessReturnsTheBody ==
    (gwMethod \in Methods /\ gwPc \in {"returned", "raised"}
        /\ gwFail = "none" /\ is_success(gwResp)) =>
        IF gwMethod = "DELETE" /\ gwResp.status = 204
        THEN gwPc = "returned" /\ gwResult = NoneValue
        ELSE json_loads(gwResp.body).ok =>
                 /\ gwPc = "returned"
                 /\ gwResult = Decode(strip(gwResp.body)[1])
                 /\ gwError = NoError

\* a get answered 204 with a JSON body has returned that body
C9_Witness ==
    /\ gwMethod = "GET" /\ gwPc = "returned"
    /\ gwResp.status = 204
    /\ gwResp.body = <<"{a}">>
    /\ gwResult.content = "a"

====
